---- MODULE Spec2Model ----
(***************************************************************************)
(* Model of the collection registry: the field analyzer                    *)
(* (utils/fieldAnalyzer.ts), the types generator's type mapper             *)
(* (generators/types.ts) and the registry scan (collectionRegistry.ts).    *)
(*                                                                         *)
(* Text is a sequence of one-character strings; the regular expressions    *)
(* of the analyzer are evaluated character by character.                   *)
(***************************************************************************)
EXTENDS Integers, Sequences, FiniteSets, TLC

VARIABLES
  pc,           \* position of the program under analysis
  files,        \* the .ts files of collectionsPath, in readdir order
  idx,          \* number of files the forEach of scanCollections has handled
  collections,  \* this.collections: insertion-ordered Map, as a sequence of metadata
  logs,         \* console output, in order
  config,       \* this.config (the part the scan reads)
  arg,          \* argument(s) of the pure function under analysis
  ret,          \* its return value
  out           \* what generate() has produced: the output directory and the steps run

vars == <<pc, files, idx, collections, logs, config, arg, ret, out>>

----------------------------------------------------------------------------
(* Bounds of the model *)

MaxSegs == 3      \* segments per generated document
MaxFiles == 3     \* files in the scanned directory
MaxFields == 4    \* length of a field list handed to deduplicateFields
MaxWord == 3      \* letters of a generated identifier (inflection)

----------------------------------------------------------------------------
(* Text *)

\* the three quote characters of the class ['"`]; the backquote is written as
\* a named character
Backquote == "BACKQUOTE"
Quotes == {"'", "\"", Backquote}
Spaces == {" ", "\n"}

W_slug == <<"s","l","u","g">>
W_name == <<"n","a","m","e">>
W_type == <<"t","y","p","e">>
W_title == <<"t","i","t","l","e">>
W_status == <<"s","t","a","t","u","s">>
W_tags == <<"t","a","g","s">>
W_text == <<"t","e","x","t">>
W_select == <<"s","e","l","e","c","t">>
W_posts == <<"p","o","s","t","s">>
W_examples == <<"e","x","a","m","p","l","e","s">>
W_useAsTitle == <<"u","s","e","A","s","T","i","t","l","e">>
W_required_true == <<"r","e","q","u","i","r","e","d",":"," ","t","r","u","e">>
W_read_true == <<"r","e","a","d",":"," ","(",")"," ","=",">"," ","t","r","u","e">>

\* String.prototype.toUpperCase on one character of the alphabet
LowerLetters == <<"a","b","c","d","e","f","g","h","i","j","k","l","m",
                  "n","o","p","q","r","s","t","u","v","w","x","y","z">>
UpperLetters == <<"A","B","C","D","E","F","G","H","I","J","K","L","M",
                  "N","O","P","Q","R","S","T","U","V","W","X","Y","Z">>

toUpperCase(c) ==
  IF \E i \in 1..26 : LowerLetters[i] = c
  THEN UpperLetters[CHOOSE i \in 1..26 : LowerLetters[i] = c]
  ELSE c

\* str.slice(from0) with a 0-based start, to the end
sliceFrom(str, from0) == SubSeq(str, from0 + 1, Len(str))

\* str.substring(from0, to0) with 0-based bounds, end exclusive and clamped
substring(str, from0, to0) ==
  SubSeq(str, from0 + 1, IF to0 > Len(str) THEN Len(str) ELSE to0)

\* s occurs in str at 1-based position i
occursAt(str, s, i) ==
  /\ i >= 1
  /\ i + Len(s) - 1 <= Len(str)
  /\ \A k \in 1..Len(s) : str[i + k - 1] = s[k]

includes(str, s) == \E i \in 1..(Len(str) + 1) : occursAt(str, s, i)

endsWith(str, s) == Len(s) <= Len(str) /\ occursAt(str, s, Len(str) - Len(s) + 1)

capitalize(str) ==
  IF Len(str) = 0 THEN str ELSE <<toUpperCase(str[1])>> \o sliceFrom(str, 1)

----------------------------------------------------------------------------
(* The marker pattern  /key:\s*['"`]([^'"`]+)['"`]/  *)

NoMatch == [found |-> FALSE, index |-> 0, value |-> <<>>, end |-> 0]

\* first position >= i that is not whitespace (\s* is greedy and what follows
\* it is a quote, so the pattern never gives a space back)
skipSpaces(str, i) ==
  IF i > Len(str) THEN i
  ELSE CHOOSE j \in i..(Len(str) + 1) :
         /\ j > Len(str) \/ str[j] \notin Spaces
         /\ \A k \in i..(j - 1) : str[k] \in Spaces

\* first position >= i holding a quote, Len+1 when there is none
nextQuote(str, i) ==
  IF i > Len(str) THEN i
  ELSE CHOOSE j \in i..(Len(str) + 1) :
         /\ j > Len(str) \/ str[j] \in Quotes
         /\ \A k \in i..(j - 1) : str[k] \notin Quotes

\* matchMarkerAt with the capture group opened one character early
matchMarkerAt_captureFromQuote(str, key, i) ==
  IF ~occursAt(str, key \o <<":">>, i) THEN NoMatch
  ELSE LET q1 == skipSpaces(str, i + Len(key) + 1)
       IN IF q1 > Len(str) \/ str[q1] \notin Quotes THEN NoMatch
          ELSE LET q2 == nextQuote(str, q1 + 1)
               IN IF q2 > Len(str) \/ q2 = q1 + 1 THEN NoMatch
                  ELSE [found |-> TRUE, index |-> i,
                        value |-> SubSeq(str, q1, q2 - 1), end |-> q2]

\* the pattern anchored at 1-based position i
matchMarkerAt(str, key, i) ==
  IF ~occursAt(str, key \o <<":">>, i) THEN NoMatch
  ELSE LET q1 == skipSpaces(str, i + Len(key) + 1)
       IN IF q1 > Len(str) \/ str[q1] \notin Quotes THEN NoMatch
          ELSE LET q2 == nextQuote(str, q1 + 1)
               IN IF q2 > Len(str) \/ q2 = q1 + 1 THEN NoMatch
                  ELSE [found |-> TRUE, index |-> i,
                        value |-> SubSeq(str, q1 + 1, q2 - 1), end |-> q2]

\* leftmost match at a position >= from (String.prototype.match, and one step
\* of matchAll)
matchMarker(str, key, from) ==
  LET hits == { p \in from..Len(str) : matchMarkerAt(str, key, p).found }
  IN IF hits = {} THEN NoMatch
     ELSE matchMarkerAt(str, key, CHOOSE p \in hits : \A q \in hits : p <= q)

----------------------------------------------------------------------------
(* utils/fieldAnalyzer.ts *)

RequiredWindow == 200

\* the loop body looking for the required marker in the whole remainder
fieldOf_requiredAnywhere(content, m) ==
  LET fieldStart == m.index - 1
  IN CHOOSE field \in
       { [name |-> m.value,
          type |-> IF typeMatch.found THEN typeMatch.value ELSE W_text,
          required |-> includes(sliceFrom(content, fieldStart), W_required_true)]
         : typeMatch \in {matchMarker(sliceFrom(content, fieldStart), W_type, 1)} }
       : TRUE

\* one match of the name pattern at 1-based position m.index: the loop body
fieldOf(content, m) ==
  LET fieldStart == m.index - 1
  IN CHOOSE field \in
       { [name |-> m.value,
          type |-> IF typeMatch.found THEN typeMatch.value ELSE W_text,
          required |-> includes(substring(content, fieldStart,
                                          fieldStart + RequiredWindow),
                                W_required_true)]
         : typeMatch \in {matchMarker(sliceFrom(content, fieldStart), W_type, 1)} }
       : TRUE

\* the matchAll loop, resumed after the previous match
RECURSIVE analyzeFrom(_, _)
analyzeFrom(content, from) ==
  CHOOSE fields \in
    { IF ~m.found THEN <<>>
      ELSE <<fieldOf(content, m)>> \o analyzeFrom(content, m.end + 1)
      : m \in {matchMarker(content, W_name, from)} } : TRUE

analyzeFields(content) == analyzeFrom(content, 1)

\* fields.some((f) => f.name === name)
someNamed(fields, name) == \E i \in 1..Len(fields) : fields[i].name = name

W_seo == <<"s","e","o">>
W_showInNavigation ==
  <<"s","h","o","w","I","n","N","a","v","i","g","a","t","i","o","n">>
W_featuredImage == <<"f","e","a","t","u","r","e","d","I","m","a","g","e">>
W_excerpt == <<"e","x","c","e","r","p","t">>
W_author == <<"a","u","t","h","o","r">>

W_Media == <<"M","e","d","i","a">>
W_Pages == <<"P","a","g","e","s">>
W_Users == <<"U","s","e","r","s">>
W_Posts == <<"P","o","s","t","s">>
W_Examples == <<"E","x","a","m","p","l","e","s">>
W_Page == <<"P","a","g","e">>
W_User == <<"U","s","e","r">>

\* pluralize appending 'es' after 's' only
pluralize_esAfterS(str) ==
  IF str = W_Media THEN W_Media
  ELSE IF str = W_Pages THEN W_Pages
  ELSE IF str = W_Users THEN W_Users
  ELSE IF str = W_Posts THEN W_Posts
  ELSE IF str = W_Examples THEN W_Examples
  ELSE IF endsWith(str, <<"y">>) THEN SubSeq(str, 1, Len(str) - 1) \o <<"i","e","s">>
  ELSE IF endsWith(str, <<"s">>) THEN str \o <<"e","s">>
  ELSE str \o <<"s">>

pluralize(str) ==
  IF str = W_Media THEN W_Media
  ELSE IF str = W_Pages THEN W_Pages
  ELSE IF str = W_Users THEN W_Users
  ELSE IF str = W_Posts THEN W_Posts
  ELSE IF str = W_Examples THEN W_Examples
  ELSE IF endsWith(str, <<"y">>) THEN SubSeq(str, 1, Len(str) - 1) \o <<"i","e","s">>
  ELSE IF endsWith(str, <<"s">>) \/ endsWith(str, <<"s","h">>)
          \/ endsWith(str, <<"c","h">>)
       THEN str \o <<"e","s">>
  ELSE str \o <<"s">>

\* singularize without the 'ies' rule
singularize_noIes(str) ==
  IF str = W_Media THEN W_Media
  ELSE IF str = W_Pages THEN W_Page
  ELSE IF str = W_Users THEN W_User
  ELSE IF endsWith(str, <<"e","s">>) THEN SubSeq(str, 1, Len(str) - 2)
  ELSE IF endsWith(str, <<"s">>) THEN SubSeq(str, 1, Len(str) - 1)
  ELSE str

singularize(str) ==
  IF str = W_Media THEN W_Media
  ELSE IF str = W_Pages THEN W_Page
  ELSE IF str = W_Users THEN W_User
  ELSE IF endsWith(str, <<"i","e","s">>) THEN SubSeq(str, 1, Len(str) - 3) \o <<"y">>
  ELSE IF endsWith(str, <<"e","s">>) THEN SubSeq(str, 1, Len(str) - 2)
  ELSE IF endsWith(str, <<"s">>) THEN SubSeq(str, 1, Len(str) - 1)
  ELSE str

\* the value null
Null == [isNull |-> TRUE]

\* the object literal with the navigation flag keyed by another name
metadataOf_navigationByName(slug, displayName, filename, fields, content) ==
  [slug |-> slug,
   displayName |-> displayName,
   pluralName |-> pluralize(displayName),
   filename |-> filename,
   fields |-> fields,
   hasSlug |-> someNamed(fields, W_slug),
   hasStatus |-> someNamed(fields, W_status),
   hasSEO |-> someNamed(fields, W_seo),
   hasNavigation |-> someNamed(fields, <<"n","a","v","i","g","a","t","i","o","n">>),
   hasFeaturedImage |-> someNamed(fields, W_featuredImage),
   hasExcerpt |-> someNamed(fields, W_excerpt),
   hasTags |-> someNamed(fields, W_tags),
   hasAuthor |-> someNamed(fields, W_author),
   isPublic |-> includes(content, W_read_true)]

\* the object literal returned by extractCollectionMetadata
metadataOf(slug, displayName, filename, fields, content) ==
  [slug |-> slug,
   displayName |-> displayName,
   pluralName |-> pluralize(displayName),
   filename |-> filename,
   fields |-> fields,
   hasSlug |-> someNamed(fields, W_slug),
   hasStatus |-> someNamed(fields, W_status),
   hasSEO |-> someNamed(fields, W_seo),
   hasNavigation |-> someNamed(fields, W_showInNavigation),
   hasFeaturedImage |-> someNamed(fields, W_featuredImage),
   hasExcerpt |-> someNamed(fields, W_excerpt),
   hasTags |-> someNamed(fields, W_tags),
   hasAuthor |-> someNamed(fields, W_author),
   isPublic |-> includes(content, W_read_true)]

\* displayNameOf without the special case of useAsTitle: 'title'
displayNameOf_noTitleCase(slug, titleMatch) ==
  IF titleMatch.found /\ Len(titleMatch.value) > 0
  THEN capitalize(titleMatch.value)
  ELSE capitalize(slug)

\* displayName: capitalize(useAsTitle) or capitalize(slug), and the slug again
\* when useAsTitle is 'title'
displayNameOf(slug, titleMatch) ==
  IF titleMatch.found /\ titleMatch.value = W_title THEN capitalize(slug)
  ELSE IF titleMatch.found /\ Len(titleMatch.value) > 0
       THEN capitalize(titleMatch.value)
  ELSE capitalize(slug)

\* the try block of extractCollectionMetadata when nothing in it raises
\* (x \in {e} binds x to the value of e, computed once)
extractTry(content, filename) ==
  CHOOSE result \in
    { IF ~slugMatch.found THEN Null
      ELSE IF Len(slugMatch.value) = 0 THEN Null
      ELSE CHOOSE metadata \in
             { metadataOf(slugMatch.value,
                          displayNameOf(slugMatch.value, titleMatch),
                          filename, fields, content) :
                 titleMatch \in {matchMarker(content, W_useAsTitle, 1)},
                 fields \in {analyzeFields(content)} } : TRUE
      : slugMatch \in {matchMarker(content, W_slug, 1)} } : TRUE

\* console.error(`Error parsing ${filename}:`, message)
errorEntry(filename) ==
  [level |-> "error", text |-> "Error parsing", subject |-> filename]

\* extractCollectionMetadata reporting a document without slug as an error
extractCollectionMetadata_skipIsError(doc, filename) ==
  IF doc.raises
  THEN [value |-> Null, console |-> <<errorEntry(filename)>>, thrown |-> FALSE]
  ELSE CHOOSE r \in
         { [value |-> v,
            console |-> IF v = Null THEN <<errorEntry(filename)>> ELSE <<>>,
            thrown |-> FALSE] : v \in {extractTry(doc.content, filename)} } : TRUE

\* extractCollectionMetadata without its try/catch
extractCollectionMetadata_noCatch(doc, filename) ==
  IF doc.raises
  THEN [value |-> Null, console |-> <<>>, thrown |-> TRUE]
  ELSE [value |-> extractTry(doc.content, filename), console |-> <<>>,
        thrown |-> FALSE]

\* extractCollectionMetadata: the returned value, what it wrote to the
\* console, and whether an exception leaves it.  doc.raises: the text scan
\* inside the try block throws; the catch logs and returns null.
extractCollectionMetadata(doc, filename) ==
  IF doc.raises
  THEN [value |-> Null, console |-> <<errorEntry(filename)>>, thrown |-> FALSE]
  ELSE [value |-> extractTry(doc.content, filename), console |-> <<>>,
        thrown |-> FALSE]

\* deduplicateFields keeping the last declaration of a name
RECURSIVE dedupLastFrom(_, _)
dedupLastFrom(fields, i) ==
  IF i > Len(fields) THEN <<>>
  ELSE IF \E j \in (i + 1)..Len(fields) : fields[j].name = fields[i].name
       THEN dedupLastFrom(fields, i + 1)
  ELSE <<fields[i]>> \o dedupLastFrom(fields, i + 1)

deduplicateFields_lastWins(fields) == dedupLastFrom(fields, 1)

\* deduplicateFields: filter with the set of names seen so far
RECURSIVE dedupFrom(_, _, _)
dedupFrom(fields, i, seen) ==
  IF i > Len(fields) THEN <<>>
  ELSE IF fields[i].name \in seen THEN dedupFrom(fields, i + 1, seen)
  ELSE <<fields[i]>> \o dedupFrom(fields, i + 1, seen \cup {fields[i].name})

deduplicateFields(fields) == dedupFrom(fields, 1, {})

----------------------------------------------------------------------------
(* Type mapping: getTypeScriptType (fieldAnalyzer.ts) and                  *)
(* mapFieldTypeToTypeScript (generators/types.ts)                          *)

\* A JavaScript value: a string, undefined, or a member inherited from
\* Object.prototype (a function, or the prototype object for __proto__)
Str(v) == [t |-> "string", v |-> v]
Undefined == [t |-> "undefined", v |-> ""]
Inherited(key) ==
  [t |-> IF key = <<"_","_","p","r","o","t","o","_","_">> THEN "object" ELSE "function", v |-> "Object.prototype"]

\* x || y
OrElse(x, y) == IF x.t = "undefined" \/ x = Str("") THEN y ELSE x

\* the property names every object literal inherits from Object.prototype
ObjectPrototypeKeys ==
  {<<"c","o","n","s","t","r","u","c","t","o","r">>,
   <<"h","a","s","O","w","n","P","r","o","p","e","r","t","y">>,
   <<"i","s","P","r","o","t","o","t","y","p","e","O","f">>,
   <<"p","r","o","p","e","r","t","y","I","s","E","n","u","m","e","r","a","b","l","e">>,
   <<"t","o","L","o","c","a","l","e","S","t","r","i","n","g">>,
   <<"t","o","S","t","r","i","n","g">>,
   <<"v","a","l","u","e","O","f">>,
   <<"_","_","p","r","o","t","o","_","_">>,
   <<"_","_","d","e","f","i","n","e","G","e","t","t","e","r","_","_">>,
   <<"_","_","d","e","f","i","n","e","S","e","t","t","e","r","_","_">>,
   <<"_","_","l","o","o","k","u","p","G","e","t","t","e","r","_","_">>,
   <<"_","_","l","o","o","k","u","p","S","e","t","t","e","r","_","_">>}

\* the own keys of the typeMap literal of getTypeScriptType
AnalyzerTypeKeys ==
  {<<"t","e","x","t">>,
   <<"t","e","x","t","a","r","e","a">>,
   <<"r","i","c","h","T","e","x","t">>,
   <<"n","u","m","b","e","r">>,
   <<"e","m","a","i","l">>,
   <<"d","a","t","e">>,
   <<"c","h","e","c","k","b","o","x">>,
   <<"s","e","l","e","c","t">>,
   <<"r","a","d","i","o">>,
   <<"u","p","l","o","a","d">>,
   <<"r","e","l","a","t","i","o","n","s","h","i","p">>,
   <<"a","r","r","a","y">>,
   <<"g","r","o","u","p">>,
   <<"b","l","o","c","k","s">>}

analyzerTypeOf(key) ==
  IF key = <<"t","e","x","t">> THEN "string"
  ELSE IF key = <<"t","e","x","t","a","r","e","a">> THEN "string"
  ELSE IF key = <<"r","i","c","h","T","e","x","t">> THEN "any"
  ELSE IF key = <<"n","u","m","b","e","r">> THEN "number"
  ELSE IF key = <<"e","m","a","i","l">> THEN "string"
  ELSE IF key = <<"d","a","t","e">> THEN "string"
  ELSE IF key = <<"c","h","e","c","k","b","o","x">> THEN "boolean"
  ELSE IF key = <<"s","e","l","e","c","t">> THEN "string"
  ELSE IF key = <<"r","a","d","i","o">> THEN "string"
  ELSE IF key = <<"u","p","l","o","a","d">> THEN "Media"
  ELSE IF key = <<"r","e","l","a","t","i","o","n","s","h","i","p">> THEN "any"
  ELSE IF key = <<"a","r","r","a","y">> THEN "any[]"
  ELSE IF key = <<"g","r","o","u","p">> THEN "any"
  ELSE IF key = <<"b","l","o","c","k","s">> THEN "any[]"
  ELSE ""

\* typeMap[payloadType] on the literal of getTypeScriptType: own property,
\* else the prototype chain, else undefined
analyzerTypeMap(payloadType) ==
  IF payloadType \in AnalyzerTypeKeys THEN Str(analyzerTypeOf(payloadType))
  ELSE IF payloadType \in ObjectPrototypeKeys THEN Inherited(payloadType)
  ELSE Undefined

StatusUnion == "\"draft\" | \"published\""
TemplateUnion == "\"default\" | \"full-width\" | \"sidebar\" | \"landing\""

W_template == <<"t","e","m","p","l","a","t","e">>

\* getTypeScriptType consulting the general table before the name overrides
getTypeScriptType_tableFirst(payloadType, fieldName) ==
  IF analyzerTypeMap(payloadType).t # "undefined" THEN analyzerTypeMap(payloadType)
  ELSE IF fieldName = W_status /\ payloadType = W_select THEN Str(StatusUnion)
  ELSE IF fieldName = W_template /\ payloadType = W_select THEN Str(TemplateUnion)
  ELSE Str("any")

getTypeScriptType(payloadType, fieldName) ==
  IF fieldName = W_status /\ payloadType = W_select THEN Str(StatusUnion)
  ELSE IF fieldName = W_template /\ payloadType = W_select THEN Str(TemplateUnion)
  ELSE OrElse(analyzerTypeMap(payloadType), Str("any"))

\* the own keys of the typeMap literal of mapFieldTypeToTypeScript
GeneratorTypeKeys ==
  {<<"t","e","x","t">>,
   <<"t","e","x","t","a","r","e","a">>,
   <<"r","i","c","h","T","e","x","t">>,
   <<"n","u","m","b","e","r">>,
   <<"e","m","a","i","l">>,
   <<"d","a","t","e">>,
   <<"c","h","e","c","k","b","o","x">>,
   <<"s","e","l","e","c","t">>,
   <<"r","a","d","i","o">>,
   <<"u","p","l","o","a","d">>,
   <<"r","e","l","a","t","i","o","n","s","h","i","p">>,
   <<"a","r","r","a","y">>,
   <<"g","r","o","u","p">>,
   <<"b","l","o","c","k","s">>,
   <<"j","s","o","n">>,
   <<"c","o","d","e">>,
   <<"p","o","i","n","t">>,
   <<"c","o","l","l","a","p","s","i","b","l","e">>,
   <<"r","o","w">>,
   <<"t","a","b","s">>}

generatorTypeOf(key) ==
  IF key = <<"t","e","x","t">> THEN "string"
  ELSE IF key = <<"t","e","x","t","a","r","e","a">> THEN "string"
  ELSE IF key = <<"r","i","c","h","T","e","x","t">> THEN "any"
  ELSE IF key = <<"n","u","m","b","e","r">> THEN "number"
  ELSE IF key = <<"e","m","a","i","l">> THEN "string"
  ELSE IF key = <<"d","a","t","e">> THEN "string"
  ELSE IF key = <<"c","h","e","c","k","b","o","x">> THEN "boolean"
  ELSE IF key = <<"s","e","l","e","c","t">> THEN "string"
  ELSE IF key = <<"r","a","d","i","o">> THEN "string"
  ELSE IF key = <<"u","p","l","o","a","d">> THEN "Media"
  ELSE IF key = <<"r","e","l","a","t","i","o","n","s","h","i","p">> THEN "any"
  ELSE IF key = <<"a","r","r","a","y">> THEN "any[]"
  ELSE IF key = <<"g","r","o","u","p">> THEN "any"
  ELSE IF key = <<"b","l","o","c","k","s">> THEN "any[]"
  ELSE IF key = <<"j","s","o","n">> THEN "any"
  ELSE IF key = <<"c","o","d","e">> THEN "string"
  ELSE IF key = <<"p","o","i","n","t">> THEN "[number, number]"
  ELSE IF key = <<"c","o","l","l","a","p","s","i","b","l","e">> THEN "any"
  ELSE IF key = <<"r","o","w">> THEN "any"
  ELSE IF key = <<"t","a","b","s">> THEN "any"
  ELSE ""

generatorTypeMap(payloadType) ==
  IF payloadType \in GeneratorTypeKeys THEN Str(generatorTypeOf(payloadType))
  ELSE IF payloadType \in ObjectPrototypeKeys THEN Inherited(payloadType)
  ELSE Undefined

\* String.prototype.toLowerCase
toLowerChar(c) ==
  IF \E i \in 1..26 : UpperLetters[i] = c
  THEN LowerLetters[CHOOSE i \in 1..26 : UpperLetters[i] = c]
  ELSE c

toLowerCase(str) == [i \in 1..Len(str) |-> toLowerChar(str[i])]

mapFieldTypeToTypeScript(payloadType, fieldName) ==
  IF fieldName = W_status /\ payloadType = W_select THEN Str(StatusUnion)
  ELSE IF fieldName = W_template /\ payloadType = W_select THEN Str(TemplateUnion)
  ELSE IF includes(toLowerCase(fieldName), W_slug) THEN Str("string")
  ELSE OrElse(generatorTypeMap(payloadType), Str("any"))

----------------------------------------------------------------------------
(* Documents *)

\* key: <ws> <q1> value <q2> ,
Marker(key, ws, q1, value, q2) ==
  key \o <<":">> \o ws \o <<q1>> \o value \o <<q2>> \o <<",">>

W_news == <<"n","e","w","s">>

\* the pieces documents are assembled from
Segments ==
  { Marker(W_slug, <<" ">>, "'", W_posts, "'"),
    Marker(W_slug, <<>>, "\"", W_examples, "\""),
    Marker(W_slug, <<"\n", " ">>, Backquote, W_news, "\""),
    Marker(W_slug, <<" ">>, "'", <<>>, "'"),
    Marker(W_name, <<" ">>, "'", W_slug, "'"),
    Marker(W_name, <<" ">>, "'", W_tags, "'")
      \o Marker(W_type, <<" ">>, "'", W_select, "'")
      \o W_required_true \o <<",">>,
    Marker(W_name, <<>>, "\"", W_tags, "\""),
    Marker(W_name, <<" ">>, "'", W_status, "'")
      \o Marker(W_type, <<" ">>, "'", W_select, "'"),
    Marker(W_type, <<" ">>, "'", W_text, "'"),
    Marker(W_useAsTitle, <<" ">>, "'", W_title, "'"),
    Marker(W_useAsTitle, <<" ">>, "'", W_name, "'"),
    W_read_true \o <<",">> }

RECURSIVE concat(_)
concat(segs) == IF Len(segs) = 0 THEN <<>> ELSE Head(segs) \o concat(Tail(segs))

\* every text of at most n segments
SegLists(n) == UNION { [1..k -> Segments] : k \in 0..n }
Texts(n) == { concat(segs) : segs \in SegLists(n) }

fileName(i) == "file" \o ToString(i) \o ".ts"

\* a directory entry whose content is text
File(i, text, raises) == [filename |-> fileName(i), content |-> text, raises |-> raises]

----------------------------------------------------------------------------
(* collectionRegistry.ts: the scan *)

\* the output of a registry on which generate() has not run, the output
\* directory being empty
NoOutput ==
  [steps |-> <<>>,
   payloadTypes |-> "",
   typesDir |-> {},
   clientsDir |-> {},
   typeFiles |-> <<>>,
   typesIndex |-> Null,
   clientFiles |-> <<>>,
   clientIndex |-> Null,
   mainClient |-> Null,
   routes |-> <<>>,
   seo |-> <<>>]

logEntry(text, subject) == [level |-> "log", text |-> text, subject |-> subject]

\* Map.prototype.set on the insertion-ordered map this.collections
mapSet(map, metadata) ==
  IF \E i \in 1..Len(map) : map[i].slug = metadata.slug
  THEN [i \in 1..Len(map) |->
          IF map[i].slug = metadata.slug THEN metadata ELSE map[i]]
  ELSE Append(map, metadata)

mapHas(map, slug) == \E i \in 1..Len(map) : map[i].slug = slug

\* scanCollections up to the forEach, the directory being present.  files is
\* collectionFiles: the directory listing after the filter on '.ts' and
\* 'index.ts'.  The two debug lines (config.debug, off by default) write to
\* the console only and are left out of logs.
ScanStart ==
  /\ pc = "constructed"
  /\ config.dirExists
  /\ pc' = "scanning"
  /\ logs' = Append(logs, logEntry("Scanning Payload collections...", ""))
  /\ UNCHANGED <<files, idx, collections, config, arg, ret, out>>

\* scanCollections when collectionsPath does not exist
ScanMissingDir ==
  /\ pc = "constructed"
  /\ ~config.dirExists
  /\ pc' = "scanned"
  /\ logs' = logs \o <<logEntry("Scanning Payload collections...", ""),
                      logEntry("Collections directory not found", "")>>
  /\ UNCHANGED <<files, idx, collections, config, arg, ret, out>>

\* one call of the forEach callback of scanCollections; an exception that
\* leaves the callback ends the forEach and scanCollections
ScanFile ==
  /\ pc = "scanning"
  /\ idx < Len(files)
  /\ \E r \in {extractCollectionMetadata(files[idx + 1], files[idx + 1].filename)} :
     LET metadata == r.value
     IN IF r.thrown
        THEN /\ pc' = "aborted"
             /\ UNCHANGED <<idx, collections, logs, ret>>
        ELSE /\ ret' = metadata
             /\ idx' = idx + 1
             /\ pc' = pc
             /\ IF metadata # Null
                THEN IF config.skipExamples /\ metadata.slug = W_examples
                     THEN /\ logs' = logs \o r.console
                                       \o <<logEntry("Skipping collection", metadata.slug)>>
                          /\ UNCHANGED collections
                     ELSE /\ collections' = mapSet(collections, metadata)
                          /\ logs' = logs \o r.console
                                       \o <<logEntry("Found collection", metadata.slug)>>
                ELSE /\ logs' = logs \o r.console
                     /\ UNCHANGED collections
  /\ UNCHANGED <<files, config, arg, out>>

\* the forEach is over
ScanEnd ==
  /\ pc = "scanning"
  /\ idx = Len(files)
  /\ pc' = "scanned"
  /\ UNCHANGED <<files, idx, collections, logs, config, arg, ret, out>>

Next == ScanStart \/ ScanMissingDir \/ ScanFile \/ ScanEnd

\* the configurations the constructor yields for the scan
Configs == [skipExamples : BOOLEAN, dirExists : {TRUE}]
             \cup {[skipExamples |-> TRUE, dirExists |-> FALSE]}

\* a directory of one file, over every generated text
InitExtract ==
  /\ pc = "constructed"
  /\ config \in Configs
  /\ \E text \in Texts(MaxSegs) :
       files = IF config.dirExists THEN <<File(1, text, FALSE)>> ELSE <<>>
  /\ idx = 0
  /\ collections = <<>>
  /\ logs = <<>>
  /\ arg = Null
  /\ ret = Null
  /\ out = NoOutput

SpecExtract == InitExtract /\ [][Next]_vars

\* the documents of a scanned directory: no slug marker, two documents
\* declaring 'posts', 'examples', 'news', and one whose text scan throws
ScanDocs ==
  { [content |-> Marker(W_name, <<" ">>, "'", W_tags, "'")
                   \o Marker(W_type, <<" ">>, "'", W_text, "'"),
     raises |-> FALSE],
    [content |-> Marker(W_slug, <<" ">>, "'", W_posts, "'")
                   \o Marker(W_name, <<" ">>, "'", W_slug, "'")
                   \o Marker(W_name, <<" ">>, "'", W_status, "'")
                   \o Marker(W_type, <<" ">>, "'", W_select, "'"),
     raises |-> FALSE],
    [content |-> Marker(W_slug, <<>>, "\"", W_posts, "\"")
                   \o Marker(W_useAsTitle, <<" ">>, "'", W_name, "'")
                   \o Marker(W_name, <<" ">>, "'", W_tags, "'")
                   \o Marker(W_name, <<" ">>, "'", W_tags, "'"),
     raises |-> FALSE],
    [content |-> Marker(W_slug, <<" ">>, "'", W_examples, "'")
                   \o Marker(W_name, <<" ">>, "'", W_title, "'"),
     raises |-> FALSE],
    [content |-> Marker(W_slug, <<" ">>, "'", W_news, "'") \o W_read_true,
     raises |-> FALSE],
    [content |-> Marker(W_slug, <<" ">>, "'", W_news, "'"),
     raises |-> TRUE] }

FileLists(n) ==
  UNION { { [i \in 1..k |-> File(i, docs[i].content, docs[i].raises)] :
              docs \in [1..k -> ScanDocs] } : k \in 0..n }

\* the registry after construction, before scanCollections
Init ==
  /\ pc = "constructed"
  /\ config \in Configs
  /\ files \in (IF config.dirExists THEN FileLists(MaxFiles) ELSE {<<>>})
  /\ idx = 0
  /\ collections = <<>>
  /\ logs = <<>>
  /\ arg = Null
  /\ ret = Null
  /\ out = NoOutput

Spec == Init /\ [][Next]_vars

----------------------------------------------------------------------------
(* The pure functions, applied to drawn inputs *)

NoScan ==
  /\ out = NoOutput
  /\ files = <<>>
  /\ idx = 0
  /\ collections = <<>>
  /\ logs = <<>>
  /\ config = [skipExamples |-> TRUE, dirExists |-> TRUE]

W_constructor == <<"c","o","n","s","t","r","u","c","t","o","r">>
W_urlSlug == <<"u","r","l","S","l","u","g">>
W_custom == <<"c","u","s","t","o","m">>

\* primitive tags: every key of the two tables, tags of neither table, a
\* property name of Object.prototype and the empty string
TypeTags ==
  AnalyzerTypeKeys \cup GeneratorTypeKeys
    \cup {W_custom, W_constructor, <<>>}

TypeNames == {<<>>, W_status, W_template, W_slug, W_urlSlug, W_title, W_tags}

InitTypes ==
  /\ pc = "types"
  /\ arg \in [payloadType : TypeTags, fieldName : TypeNames]
  /\ ret = Null
  /\ NoScan

CallGetTypeScriptType ==
  /\ pc = "types"
  /\ pc' = "returned"
  /\ ret' = [fn |-> "getTypeScriptType",
             value |-> getTypeScriptType(arg.payloadType, arg.fieldName)]
  /\ UNCHANGED <<files, idx, collections, logs, config, arg, out>>

CallMapFieldTypeToTypeScript ==
  /\ pc = "types"
  /\ pc' = "returned"
  /\ ret' = [fn |-> "mapFieldTypeToTypeScript",
             value |-> mapFieldTypeToTypeScript(arg.payloadType, arg.fieldName)]
  /\ UNCHANGED <<files, idx, collections, logs, config, arg, out>>

NextTypes == CallGetTypeScriptType \/ CallMapFieldTypeToTypeScript

SpecTypes == InitTypes /\ [][NextTypes]_vars

\* field lists: three names, each declared in two ways
DedupeFields ==
  { [name |-> n, type |-> W_text, required |-> TRUE] : n \in {W_tags, W_title, W_slug} }
    \cup
  { [name |-> n, type |-> W_select, required |-> FALSE] : n \in {W_tags, W_title, W_slug} }

InitDedupe ==
  /\ pc = "dedupe"
  /\ arg \in UNION { [1..k -> DedupeFields] : k \in 0..MaxFields }
  /\ ret = Null
  /\ NoScan

CallDeduplicateFields ==
  /\ pc = "dedupe"
  /\ pc' = "returned"
  /\ ret' = deduplicateFields(arg)
  /\ UNCHANGED <<files, idx, collections, logs, config, arg, out>>

NextDedupe == CallDeduplicateFields

SpecDedupe == InitDedupe /\ [][NextDedupe]_vars

\* identifiers: every word over the letters the suffix rules look at, and
\* the display names of the exception table with their neighbours
InflectLetters == {"a", "c", "e", "h", "i", "s", "y"}

W_Post == <<"P","o","s","t">>
W_Category == <<"C","a","t","e","g","o","r","y">>
W_Example == <<"E","x","a","m","p","l","e">>
W_Article == <<"A","r","t","i","c","l","e">>

InflectWords ==
  UNION { [1..k -> InflectLetters] : k \in 0..MaxWord }
    \cup {W_Media, W_Pages, W_Users, W_Posts, W_Examples,
          W_Page, W_User, W_Post, W_Example, W_Category, W_Article}

\* ret is the list of the values returned so far; an inflection is applied
\* to the last of them, or to arg
InitInflect ==
  /\ pc = "inflect"
  /\ arg \in InflectWords
  /\ ret = <<>>
  /\ NoScan

current == IF Len(ret) = 0 THEN arg ELSE ret[Len(ret)].value

CallPluralize ==
  /\ pc = "inflect"
  /\ Len(ret) < 2
  /\ ret' = Append(ret, [fn |-> "pluralize", of |-> current, value |-> pluralize(current)])
  /\ UNCHANGED <<pc, files, idx, collections, logs, config, arg, out>>

CallSingularize ==
  /\ pc = "inflect"
  /\ Len(ret) < 2
  /\ ret' = Append(ret, [fn |-> "singularize", of |-> current, value |-> singularize(current)])
  /\ UNCHANGED <<pc, files, idx, collections, logs, config, arg, out>>

NextInflect == CallPluralize \/ CallSingularize

SpecInflect == InitInflect /\ [][NextInflect]_vars

----------------------------------------------------------------------------
(* collectionRegistry.ts: the constructor *)

W_draft == <<"d","r","a","f","t">>
W_published == <<"p","u","b","l","i","s","h","e","d">>
W_scheduled == <<"s","c","h","e","d","u","l","e","d">>
W_archived == <<"a","r","c","h","i","v","e","d">>
W_live == <<"l","i","v","e">>

DefaultFieldMappings ==
  [slugField |-> W_slug,
   statusField |-> W_status,
   seoField |-> W_seo,
   navigationField |-> W_showInNavigation,
   featuredImageField |-> W_featuredImage,
   excerptField |-> W_excerpt,
   tagsField |-> W_tags,
   authorField |-> W_author]

DefaultStatusValues ==
  [draft |-> W_draft,
   published |-> W_published,
   scheduled |-> W_scheduled,
   archived |-> W_archived]

\* the object without properties
EmptyObject == <<>>

\* { ...defaults, ...overrides }
spread(defaults, overrides) ==
  [k \in DOMAIN defaults \cup DOMAIN overrides |->
     IF k \in DOMAIN overrides THEN overrides[k] ELSE defaults[k]]

\* the constructor skipping the examples only on request
constructor_skipOnRequest(options, dirExists, typesExists) ==
  [skipExamples |-> options.skipExamples = "true",
   fieldMappings |-> spread(DefaultFieldMappings, options.fieldMappings),
   statusValues |-> spread(DefaultStatusValues, options.statusValues),
   format |-> options.format,
   dirExists |-> dirExists,
   typesExists |-> typesExists]

\* this.config as the constructor sets it from the options, with the two
\* facts of the file system the run reads: whether collectionsPath and
\* typesPath exist.  options.skipExamples is "true", "false" or "undefined";
\* options.format is a boolean, FALSE standing for undefined as well.
constructor(options, dirExists, typesExists) ==
  [skipExamples |-> options.skipExamples # "false",
   fieldMappings |-> spread(DefaultFieldMappings, options.fieldMappings),
   statusValues |-> spread(DefaultStatusValues, options.statusValues),
   format |-> options.format,
   dirExists |-> dirExists,
   typesExists |-> typesExists]

----------------------------------------------------------------------------
(* collectionRegistry.ts and utils/templateEngine.ts: the emitters *)

\* Generated text is kept as its sequence of tokens: the separators the
\* templates and the joins write, and the pieces interpolated between them
Comma == [kind |-> "comma", text |-> <<",">>]
Newline == [kind |-> "newline", text |-> <<"\n">>]
Ident(name) == [kind |-> "identifier", text |-> name]
Statement(kind, name) == [kind |-> kind, text |-> name]

\* Array.prototype.join
RECURSIVE join(_, _)
join(items, sep) ==
  IF Len(items) = 0 THEN <<>>
  ELSE IF Len(items) = 1 THEN <<items[1]>>
  ELSE <<items[1], sep>> \o join(Tail(items), sep)

\* Array.prototype.map over the values of this.collections
mapOver(map, f(_)) == [i \in 1..Len(map) |-> f(map[i])]

W_Client == <<"C","l","i","e","n","t">>
W_siteSettingsClient == <<"s","i","t","e","S","e","t","t","i","n","g","s">> \o W_Client
W_PayloadResponse == <<"P","a","y","l","o","a","d","R","e","s","p","o","n","s","e">>
W_QueryOptions == <<"Q","u","e","r","y","O","p","t","i","o","n","s">>
W_SiteSettings == <<"S","i","t","e","S","e","t","t","i","n","g","s">>
W_get == <<"g","e","t">>
W_getPublished == W_get \o <<"P","u","b","l","i","s","h","e","d">>
W_ForNavigation == <<"F","o","r","N","a","v","i","g","a","t","i","o","n">>
W_media == <<"m","e","d","i","a">>
W_dot_ts == <<".","t","s">>
W_base_ts == <<"b","a","s","e">> \o W_dot_ts
W_index_ts == <<"i","n","d","e","x">> \o W_dot_ts
W_site_settings == <<"s","i","t","e","-","s","e","t","t","i","n","g","s">>
W_site_settings_ts == W_site_settings \o W_dot_ts

\* one line of fieldDefinitions
fieldDefinition(field) ==
  [name |-> field.name,
   optional |-> ~field.required,
   type |-> getTypeScriptType(field.type, field.name)]

\* generateCollectionTypeFile: the content written to types/<slug>.ts; the
\* file of 'media' re-exports the base type and interpolates nothing
collectionTypeFile(collection) ==
  IF collection.slug = W_media
  THEN [slug |-> collection.slug, displayName |-> W_Media, fieldDefinitions |-> <<>>]
  ELSE [slug |-> collection.slug,
        displayName |-> collection.displayName,
        fieldDefinitions |-> mapOver(deduplicateFields(collection.fields), fieldDefinition)]

exportAllOf(collection) == Statement("export *", collection.slug)
exportTypeOf(collection) == Statement("export type", collection.displayName)

\* generateTypesIndex: the lines of types.ts between the fixed statements
typesIndex(map) ==
  [collectionExports |-> join(mapOver(map, exportAllOf), Newline),
   reExports |-> join(mapOver(map, exportTypeOf), Newline)
                   \o <<Newline, Statement("export type", W_SiteSettings)>>]

\* generateCollectionClientMethods (templateEngine.ts)
generateCollectionClientMethods(collection) ==
  <<[kind |-> "list", name |-> W_get \o collection.pluralName]>>
    \o (IF collection.hasSlug
        THEN <<[kind |-> "bySlug", name |-> W_get \o singularize(collection.displayName)]>>
        ELSE <<>>)
    \o (IF collection.hasStatus
        THEN <<[kind |-> "published", name |-> W_getPublished \o collection.pluralName]>>
        ELSE <<>>)
    \o (IF collection.hasNavigation
        THEN <<[kind |-> "navigation",
                name |-> W_get \o collection.pluralName \o W_ForNavigation]>>
        ELSE <<>>)

\* generateCollectionClient: the content written to clients/<slug>.ts
collectionClient(collection) ==
  [slug |-> collection.slug,
   displayName |-> collection.displayName,
   methods |-> generateCollectionClientMethods(collection)]

exportClientOf(collection) == Statement("export client", collection.slug)

\* generateClientIndex: the lines of clients/index.ts
clientIndex(map) ==
  join(mapOver(map, exportClientOf), Newline)
    \o <<Newline, Statement("export client", W_site_settings)>>

\* the entries of payloadClient that generateMainClient writes for a
\* collection, every entry being emitted whatever the flags say
legacyMethodsOf_allMethods(collection) ==
  [slug |-> collection.slug,
   methods |->
     <<[kind |-> "list", name |-> W_get \o collection.pluralName],
       [kind |-> "bySlug", name |-> W_get \o singularize(collection.displayName)],
       [kind |-> "published", name |-> W_getPublished \o collection.pluralName],
       [kind |-> "navigation",
        name |-> W_get \o collection.pluralName \o W_ForNavigation]>>]

\* the entries of payloadClient that generateMainClient writes for a collection
legacyMethodsOf(collection) ==
  [slug |-> collection.slug,
   methods |->
     <<[kind |-> "list", name |-> W_get \o collection.pluralName]>>
       \o (IF collection.hasSlug
           THEN <<[kind |-> "bySlug", name |-> W_get \o singularize(collection.displayName)]>>
           ELSE <<>>)
       \o (IF collection.hasStatus
           THEN <<[kind |-> "published", name |-> W_getPublished \o collection.pluralName]>>
           ELSE <<>>)
       \o (IF collection.hasNavigation
           THEN <<[kind |-> "navigation",
                   name |-> W_get \o collection.pluralName \o W_ForNavigation]>>
           ELSE <<>>)]

clientNameOf(collection) == Ident(collection.slug \o W_Client)
typeNameOf(collection) == Ident(collection.displayName)

\* generateMainClient: the three brace lists and the payloadClient object of
\* payloadClient.ts
mainClient(map) ==
  [clientImports |-> join(mapOver(map, clientNameOf), Comma)
                       \o <<Comma, Ident(W_siteSettingsClient), Comma>>,
   clientExports |-> join(mapOver(map, clientNameOf), Comma)
                       \o <<Comma, Ident(W_siteSettingsClient), Comma>>,
   legacyMethods |-> mapOver(map, legacyMethodsOf),
   typeExports |-> join(mapOver(map, typeNameOf), Comma)
                     \o <<Comma, Ident(W_PayloadResponse), Comma,
                          Ident(W_QueryOptions), Comma, Ident(W_SiteSettings), Comma>>]

\* generateRouteTemplate (templateEngine.ts): the payloadClient methods the
\* two routes of a collection call
routesOf(collection) ==
  [slug |-> collection.slug,
   index |-> W_getPublished \o collection.pluralName,
   detail |-> W_get \o singularize(collection.displayName)]

hasSlugOf(collection) == collection.hasSlug
hasSEOOf(collection) == collection.hasSEO
slugOf(collection) == collection.slug

\* String.prototype.replace with a string pattern: the first occurrence
replace(str, s, with) ==
  IF includes(str, s)
  THEN CHOOSE r \in { SubSeq(str, 1, i - 1) \o with \o SubSeq(str, i + Len(s), Len(str)) :
                        i \in { j \in 1..(Len(str) + 1) :
                                  /\ occursAt(str, s, j)
                                  /\ \A k \in 1..(j - 1) : ~occursAt(str, s, k) } } : TRUE
  ELSE str

\* the files of a directory that cleanupOldClientFiles / cleanupOldTypeFiles
\* leave: kept are the files the filter passes over (no '.ts' ending, or a
\* name of exempt), site-settings, and the files of registered collections
cleanupOldFiles(dir, map, exempt) ==
  { file \in dir :
      \/ ~endsWith(file, W_dot_ts)
      \/ file \in exempt
      \/ replace(file, W_dot_ts, <<>>) = W_site_settings
      \/ mapHas(map, replace(file, W_dot_ts, <<>>)) }

\* the files generateWebTypes leaves in types/
webTypesDir(dir, map) ==
  cleanupOldFiles(dir \cup {W_base_ts} \cup { map[i].slug \o W_dot_ts : i \in 1..Len(map) },
                  map, {W_base_ts})

\* the files generateClientMethods leaves in clients/
clientsDirAfter(dir, map) ==
  cleanupOldFiles(dir \cup {W_base_ts, W_site_settings_ts}
                      \cup { map[i].slug \o W_dot_ts : i \in 1..Len(map) },
                  map, {W_base_ts, W_index_ts})
    \cup {W_index_ts}

reportOf(collection) == logEntry("report", collection.slug)

step(name) == [out EXCEPT !.steps = Append(@, name)]

\* loadPayloadTypes
LoadPayloadTypes ==
  /\ pc = "scanned"
  /\ pc' = "loaded"
  /\ IF config.typesExists
     THEN /\ out' = [step("loadPayloadTypes") EXCEPT !.payloadTypes = "payload-types.ts"]
          /\ logs' = Append(logs, logEntry("Loaded Payload types", ""))
     ELSE /\ out' = step("loadPayloadTypes")
          /\ logs' = Append(logs, logEntry("Payload types not found", ""))
  /\ UNCHANGED <<files, idx, collections, config, arg, ret>>

\* generateWebTypes: base types, one type file per collection, the index,
\* the cleanup of types/
GenerateWebTypes ==
  /\ pc = "loaded"
  /\ pc' = "webTypes"
  /\ out' = [step("generateWebTypes") EXCEPT
               !.typeFiles = mapOver(collections, collectionTypeFile),
               !.typesIndex = typesIndex(collections),
               !.typesDir = webTypesDir(@, collections)]
  /\ logs' = logs \o <<logEntry("Generating web app types...", ""),
                       logEntry("Generated web types", "")>>
  /\ UNCHANGED <<files, idx, collections, config, arg, ret>>

\* generateClientMethods: base client, one client per collection, the
\* site-settings client and type file, the cleanup of clients/, the index
\* and the main client
GenerateClientMethods ==
  /\ pc = "webTypes"
  /\ pc' = "clients"
  /\ out' = [step("generateClientMethods") EXCEPT
               !.clientFiles = mapOver(collections, collectionClient),
               !.typesDir = @ \cup {W_site_settings_ts},
               !.clientsDir = clientsDirAfter(@, collections),
               !.clientIndex = clientIndex(collections),
               !.mainClient = mainClient(collections)]
  /\ logs' = logs \o <<logEntry("Generating API client methods...", ""),
                       logEntry("Generated API client methods", "")>>
  /\ UNCHANGED <<files, idx, collections, config, arg, ret>>

\* generateRouteFiles: two routes per collection that has a slug field
GenerateRouteFiles ==
  /\ pc = "clients"
  /\ pc' = "routes"
  /\ out' = [step("generateRouteFiles") EXCEPT
               !.routes = mapOver(SelectSeq(collections, hasSlugOf), routesOf)]
  /\ logs' = logs \o <<logEntry("Generating route files...", ""),
                       logEntry("Generated route files", "")>>
  /\ UNCHANGED <<files, idx, collections, config, arg, ret>>

\* generateSEOUtilities: the collections for which seo/<slug>.ts, the hook
\* and seo/<slug>-routes.ts are written
GenerateSEOUtilities ==
  /\ pc = "routes"
  /\ pc' = "seo"
  /\ out' = [step("generateSEOUtilities") EXCEPT
               !.seo = mapOver(SelectSeq(collections, hasSEOOf), slugOf)]
  /\ logs' = Append(logs, logEntry("Generating SEO utilities...", ""))
  /\ UNCHANGED <<files, idx, collections, config, arg, ret>>

\* formatGeneratedFiles: prettier runs iff config.format, and its failure is
\* caught and logged as a warning
FormatGeneratedFiles ==
  /\ pc = "seo"
  /\ pc' = "formatted"
  /\ out' = step("formatGeneratedFiles")
  /\ IF config.format
     THEN \E ok \in BOOLEAN :
            logs' = logs \o <<logEntry("Formatting generated files...", ""),
                              IF ok THEN logEntry("Generated files formatted successfully", "")
                              ELSE [level |-> "warn",
                                    text |-> "Could not format generated files",
                                    subject |-> ""]>>
     ELSE UNCHANGED logs
  /\ UNCHANGED <<files, idx, collections, config, arg, ret>>

\* generateReport, and the last line of generate()
GenerateReport ==
  /\ pc = "formatted"
  /\ pc' = "done"
  /\ out' = step("generateReport")
  /\ logs' = logs \o <<logEntry("Collection Registry Report", "")>>
               \o mapOver(collections, reportOf)
               \o <<logEntry("Generated collection(s)", ""),
                    logEntry("Collection Registry generation complete!", "")>>
  /\ UNCHANGED <<files, idx, collections, config, arg, ret>>

----------------------------------------------------------------------------
(* bin.ts and generate(): a whole run *)

\* bin.ts: collectionsPath does not exist
BinMissingCollections ==
  /\ pc = "bin"
  /\ ~config.dirExists
  /\ pc' = "exited"
  /\ logs' = Append(logs, [level |-> "error",
                           text |-> "Collections directory not found",
                           subject |-> ""])
  /\ UNCHANGED <<files, idx, collections, config, arg, ret, out>>

\* bin.ts: typesPath does not exist
BinMissingTypes ==
  /\ pc = "bin"
  /\ config.dirExists
  /\ ~config.typesExists
  /\ pc' = "exited"
  /\ logs' = Append(logs, [level |-> "error",
                           text |-> "Payload types file not found",
                           subject |-> ""])
  /\ UNCHANGED <<files, idx, collections, config, arg, ret, out>>

\* bin.ts: both paths exist, run() constructs the registry and calls generate()
BinRun ==
  /\ pc = "bin"
  /\ config.dirExists
  /\ config.typesExists
  /\ pc' = "constructed"
  /\ UNCHANGED <<files, idx, collections, logs, config, arg, ret, out>>

NextGenerate ==
  \/ BinMissingCollections \/ BinMissingTypes \/ BinRun
  \/ Next
  \/ LoadPayloadTypes \/ GenerateWebTypes \/ GenerateClientMethods
  \/ GenerateRouteFiles \/ GenerateSEOUtilities \/ FormatGeneratedFiles
  \/ GenerateReport

W_pages == <<"p","a","g","e","s">>
W_old_ts == <<"o","l","d">> \o W_dot_ts

\* the documents of a generated directory: 'posts' with a slug and a status
\* field, 'pages' with a navigation, an seo and a urlSlug field, 'media' with
\* a slug and a status field, 'news' with a slug field only, and a document
\* without slug marker
GenDocs ==
  { Marker(W_slug, <<" ">>, "'", W_posts, "'")
      \o Marker(W_name, <<" ">>, "'", W_slug, "'")
      \o Marker(W_type, <<" ">>, "'", W_text, "'")
      \o Marker(W_name, <<" ">>, "'", W_status, "'")
      \o Marker(W_type, <<" ">>, "'", W_select, "'"),
    Marker(W_slug, <<" ">>, "'", W_pages, "'")
      \o Marker(W_name, <<" ">>, "'", W_showInNavigation, "'")
      \o Marker(W_name, <<" ">>, "'", W_seo, "'")
      \o Marker(W_name, <<" ">>, "'", W_urlSlug, "'"),
    Marker(W_slug, <<" ">>, "'", W_media, "'")
      \o Marker(W_name, <<" ">>, "'", W_slug, "'")
      \o Marker(W_type, <<" ">>, "'", W_text, "'")
      \o Marker(W_name, <<" ">>, "'", W_status, "'")
      \o Marker(W_type, <<" ">>, "'", W_select, "'"),
    Marker(W_slug, <<" ">>, "'", W_news, "'")
      \o Marker(W_name, <<" ">>, "'", W_slug, "'")
      \o Marker(W_type, <<" ">>, "'", W_text, "'"),
    Marker(W_name, <<" ">>, "'", W_tags, "'") }

GenFileLists(n) ==
  UNION { { [i \in 1..k |-> File(i, docs[i], FALSE)] : docs \in [1..k -> GenDocs] } :
          k \in 0..n }

\* the options bin.ts hands to the constructor: paths and format only
BinOptions ==
  [skipExamples : {"undefined"},
   fieldMappings : {EmptyObject},
   statusValues : {EmptyObject},
   format : BOOLEAN]

\* the options of a programmatic run: the defaults, an override of the slug
\* field name, an override of the published literal
ApiOptions ==
  { [skipExamples |-> "undefined", fieldMappings |-> EmptyObject,
     statusValues |-> EmptyObject, format |-> FALSE],
    [skipExamples |-> "undefined", fieldMappings |-> [slugField |-> W_urlSlug],
     statusValues |-> EmptyObject, format |-> FALSE],
    [skipExamples |-> "undefined", fieldMappings |-> EmptyObject,
     statusValues |-> [published |-> W_live], format |-> FALSE] }

\* what types/ and clients/ hold before the run
PriorDirs ==
  { {}, {W_old_ts, W_base_ts, W_index_ts, W_site_settings_ts, W_posts \o W_dot_ts} }

\* a run starts in bin.ts or with a registry constructed by the caller
InitGenerate ==
  /\ pc \in {"bin", "constructed"}
  /\ \E options \in (IF pc = "bin" THEN BinOptions ELSE ApiOptions),
        dirExists \in BOOLEAN, typesExists \in BOOLEAN :
       config = constructor(options, dirExists, typesExists)
  /\ files \in (IF config.dirExists THEN GenFileLists(MaxFiles) ELSE {<<>>})
  /\ idx = 0
  /\ collections = <<>>
  /\ logs = <<>>
  /\ arg = Null
  /\ ret = Null
  /\ \E dir \in PriorDirs : out = [NoOutput EXCEPT !.typesDir = dir, !.clientsDir = dir]

SpecGenerate == InitGenerate /\ [][NextGenerate]_vars

----------------------------------------------------------------------------
(* A whole run over collections whose file names the cleanup looks at *)

W_dotted == <<"a",".","t","s","b">>

\* 'posts', and a collection with '.ts' inside its slug
CleanupDocs ==
  { Marker(W_slug, <<" ">>, "'", W_posts, "'")
      \o Marker(W_name, <<" ">>, "'", W_slug, "'"),
    Marker(W_slug, <<" ">>, "'", W_dotted, "'")
      \o Marker(W_name, <<" ">>, "'", W_status, "'") }

InitCleanup ==
  /\ pc \in {"bin", "constructed"}
  /\ \E options \in (IF pc = "bin" THEN BinOptions ELSE ApiOptions),
        dirExists \in BOOLEAN, typesExists \in BOOLEAN :
       config = constructor(options, dirExists, typesExists)
  /\ files \in (IF config.dirExists
                THEN UNION { { [i \in 1..k |-> File(i, docs[i], FALSE)] :
                                 docs \in [1..k -> CleanupDocs] } : k \in 0..MaxFiles }
                ELSE {<<>>})
  /\ idx = 0
  /\ collections = <<>>
  /\ logs = <<>>
  /\ arg = Null
  /\ ret = Null
  /\ \E dir \in PriorDirs : out = [NoOutput EXCEPT !.typesDir = dir, !.clientsDir = dir]

SpecCleanup == InitCleanup /\ [][NextGenerate]_vars

----------------------------------------------------------------------------
(* The scan of one document that declares fields of the well-known names *)

MaxNames == 2     \* name declarations per document

FlagNames ==
  {W_slug, W_status, W_seo, W_showInNavigation, W_featuredImage, W_excerpt,
   W_tags, W_author, W_title, W_urlSlug}

\* a slug marker followed by the name declarations
FlagText(names) ==
  Marker(W_slug, <<" ">>, "'", W_posts, "'")
    \o concat([i \in 1..Len(names) |-> Marker(W_name, <<" ">>, "'", names[i], "'")])

FlagTexts(n) == { FlagText(names) : names \in UNION { [1..k -> FlagNames] : k \in 0..n } }

\* options with and without an override of the slug field name
FlagOptions ==
  [skipExamples : {"undefined", "false"},
   fieldMappings : {EmptyObject, [slugField |-> W_urlSlug]},
   statusValues : {EmptyObject},
   format : {FALSE}]

InitFlags ==
  /\ pc = "constructed"
  /\ \E options \in FlagOptions, dirExists \in BOOLEAN :
       config = constructor(options, dirExists, TRUE)
  /\ \E text \in FlagTexts(MaxNames) :
       files = IF config.dirExists THEN <<File(1, text, FALSE)>> ELSE <<>>
  /\ idx = 0
  /\ collections = <<>>
  /\ logs = <<>>
  /\ arg = Null
  /\ ret = Null
  /\ out = NoOutput

SpecFlags == InitFlags /\ [][Next]_vars

----------------------------------------------------------------------------
(* The scan under every setting of skipExamples *)

ExampleOptions ==
  [skipExamples : {"undefined", "true", "false"},
   fieldMappings : {EmptyObject},
   statusValues : {EmptyObject},
   format : {FALSE}]

\* arg keeps the options the registry was constructed from
InitExamples ==
  /\ pc = "constructed"
  /\ arg \in ExampleOptions
  /\ \E dirExists \in BOOLEAN : config = constructor(arg, dirExists, TRUE)
  /\ files \in (IF config.dirExists THEN FileLists(MaxFiles) ELSE {<<>>})
  /\ idx = 0
  /\ collections = <<>>
  /\ logs = <<>>
  /\ ret = Null
  /\ out = NoOutput

SpecExamples == InitExamples /\ [][Next]_vars

----------------------------------------------------------------------------
(* analyzeFields applied to drawn texts *)

MaxPieces == 4    \* pieces per text handed to analyzeFields

Pad(n) == [i \in 1..n |-> " "]

\* two name declarations, a type declaration, a required marker, a gap that
\* keeps a marker behind a name declaration just inside the required
\* window, and one more character
AnalyzePieces ==
  { Marker(W_name, <<" ">>, "'", W_title, "'"),
    Marker(W_name, <<" ">>, "'", W_slug, "'"),
    Marker(W_type, <<" ">>, "'", W_select, "'"),
    W_required_true \o <<",">>,
    Pad(RequiredWindow - 28),
    <<" ">> }

AnalyzeTexts(n) == { concat(pieces) : pieces \in UNION { [1..k -> AnalyzePieces] : k \in 0..n } }

InitAnalyze ==
  /\ pc = "analyze"
  /\ arg \in AnalyzeTexts(MaxPieces)
  /\ ret = Null
  /\ NoScan

CallAnalyzeFields ==
  /\ pc = "analyze"
  /\ pc' = "returned"
  /\ ret' = analyzeFields(arg)
  /\ UNCHANGED <<files, idx, collections, logs, config, arg, out>>

NextAnalyze == CallAnalyzeFields

SpecAnalyze == InitAnalyze /\ [][NextAnalyze]_vars

----------------------------------------------------------------------------
(* Properties of the extractor and the scan *)

\* The markers of a text: the triples <<i, q1, q2>> such that content[i..q2]
\* is  key: <spaces> <quote> value <quote>  with the quotes at q1 and q2 and a
\* non-empty value free of quotes between them
Markers(content, key) ==
  UNION { UNION { { <<i, q1, q2>> :
                      q2 \in { q \in (q1 + 2)..Len(content) :
                                 /\ content[q] \in Quotes
                                 /\ \A k \in (q1 + 1)..(q - 1) :
                                      content[k] \notin Quotes } } :
                  q1 \in { q \in (i + Len(key) + 1)..Len(content) :
                             /\ content[q] \in Quotes
                             /\ \A k \in (i + Len(key) + 1)..(q - 1) :
                                  content[k] \in Spaces } } :
          i \in { j \in 1..Len(content) : occursAt(content, key \o <<":">>, j) } }

\* the value of marker m
valueOf(content, m) == SubSeq(content, m[2] + 1, m[3] - 1)

\* m is the first marker of the set M
IsFirst(m, M) == m \in M /\ \A n \in M : m[1] <= n[1]

HasMarker(content, key) == Markers(content, key) # {}

\* the value of the first marker of a text that has one
FirstMarkerValue(content, key) ==
  CHOOSE v \in { valueOf(content, CHOOSE m \in M : IsFirst(m, M)) :
                   M \in {Markers(content, key)} } : TRUE

\* the file the forEach handled last
lastFile == files[idx]

Handled == pc \in {"scanning", "scanned"} /\ idx >= 1

errorsAbout(filename) ==
  { k \in 1..Len(logs) : logs[k].level = "error" /\ logs[k].subject = filename }

registeredFrom(filename) ==
  { k \in 1..Len(collections) : collections[k].filename = filename }

\* C1: a document that contains a slug marker yields a descriptor, not null,
\* and its slug is the value of the first marker, character for character
C1_SlugIsFirstMarker ==
  (Handled /\ ~lastFile.raises) =>
    \A M \in {Markers(lastFile.content, W_slug)} :
      M # {} => /\ ret # Null
                /\ \E m \in M : /\ IsFirst(m, M)
                                 /\ ret.slug = valueOf(lastFile.content, m)

\* C1 witness: a document with two slug markers was extracted
C1_Witness ==
  /\ Handled
  /\ Cardinality(Markers(lastFile.content, W_slug)) >= 2
  /\ ret # Null
  /\ ret.slug = W_news

\* C2: a document without slug marker yields null, no error-level log about
\* it is written, and no collection of the registry comes from it
C2_NoMarkerSkipped ==
  (Handled /\ ~lastFile.raises /\ ~HasMarker(lastFile.content, W_slug))
    => /\ ret = Null
       /\ errorsAbout(lastFile.filename) = {}
       /\ registeredFrom(lastFile.filename) = {}

\* C2 witness: a non-empty document without slug marker was handled and the
\* scan came to its end
C2_Witness ==
  /\ pc = "scanned"
  /\ idx >= 1
  /\ Len(lastFile.content) > 0
  /\ ~HasMarker(lastFile.content, W_slug)
  /\ ret = Null

\* C3: a document whose extraction throws is left out with an error log
\* naming its file, the scan goes on to every other file and registers each
\* schema among them (but for 'examples' under skipExamples)
C3_FailureContained ==
  /\ pc # "aborted"
  /\ pc = "scanned" => idx = Len(files)
  /\ pc \in {"scanning", "scanned"} =>
       \A i \in 1..idx :
         IF files[i].raises
         THEN /\ errorsAbout(files[i].filename) # {}
              /\ registeredFrom(files[i].filename) = {}
         ELSE HasMarker(files[i].content, W_slug) =>
                \/ mapHas(collections, FirstMarkerValue(files[i].content, W_slug))
                \/ /\ config.skipExamples
                   /\ FirstMarkerValue(files[i].content, W_slug) = W_examples

\* C3 witness: the scan ended, a document threw, and a later schema is registered
C3_Witness ==
  /\ pc = "scanned"
  /\ \E i \in 1..Len(files) : \E j \in (i + 1)..Len(files) :
       /\ files[i].raises
       /\ ~files[j].raises
       /\ registeredFrom(files[j].filename) # {}

\* C4: the fields of a returned descriptor hold no name twice
C4_FieldsDeduplicated ==
  (Handled /\ ret # Null) =>
    \A a \in 1..Len(ret.fields) : \A b \in 1..Len(ret.fields) :
      ret.fields[a].name = ret.fields[b].name => a = b

----------------------------------------------------------------------------
(* Properties of deduplicateFields *)

\* the positions of a list that hold the first declaration of their name
FirstOccurrences(fields) ==
  { i \in 1..Len(fields) : \A j \in 1..(i - 1) : fields[j].name # fields[i].name }

\* the k-th smallest element of a set of numbers
Kth(S, k) == CHOOSE i \in S : Cardinality({ j \in S : j <= i }) = k

\* C5: deduplicateFields returns the first declaration of every name, with
\* its type and required flag, in input order, and nothing else
C5_DedupeFirstWins ==
  pc = "returned" =>
    /\ Len(ret) = Cardinality(FirstOccurrences(arg))
    /\ \A k \in 1..Len(ret) : ret[k] = arg[Kth(FirstOccurrences(arg), k)]

\* C5 witness: a list that declares a name twice in different ways, around
\* another name, was deduplicated
C5_Witness ==
  /\ pc = "returned"
  /\ Len(arg) >= 3
  /\ arg[1].name = arg[3].name
  /\ arg[1] # arg[3]
  /\ arg[2].name # arg[1].name
  /\ Len(ret) = 2

----------------------------------------------------------------------------
(* Properties of the type mappers *)

Returned(fn) == pc = "returned" /\ ret.fn = fn

\* C6: whatever the tag and the name, both mappers return a non-empty string
C6_MapperTotal ==
  pc = "returned" => (ret.value.t = "string" /\ ret.value.v # "")

\* C7: status with select gives the draft/published union and template with
\* select the layout union, in both mappers, not the table's entry of select
C7_OverridesFirst ==
  pc = "returned" =>
    /\ (arg.fieldName = W_status /\ arg.payloadType = W_select)
         => ret.value = Str(StatusUnion)
    /\ (arg.fieldName = W_template /\ arg.payloadType = W_select)
         => ret.value = Str(TemplateUnion)

\* C7 witness: getTypeScriptType was applied to (select, status)
C7_Witness ==
  /\ Returned("getTypeScriptType")
  /\ arg.fieldName = W_status
  /\ arg.payloadType = W_select
  /\ analyzerTypeOf(arg.payloadType) = "string"

\* C8: a field whose name contains "slug" maps to 'string' whatever its tag,
\* in getTypeScriptType as in mapFieldTypeToTypeScript
C8_SlugNameIsString ==
  (pc = "returned" /\ includes(arg.fieldName, W_slug))
    => ret.value = Str("string")

\* C9: a tag that is no key of the table of getTypeScriptType maps to 'any'
\* (the name overrides apply to select only, which is a key)
C9_UnknownTagIsAny ==
  (Returned("getTypeScriptType") /\ arg.payloadType \notin AnalyzerTypeKeys)
    => ret.value = Str("any")

----------------------------------------------------------------------------
(* Properties of the inflection helpers *)

IrregularTable == {W_Media, W_Pages, W_Users, W_Posts, W_Examples}

\* pluralize was applied to arg and singularize to its result
RoundTrip ==
  /\ pc = "inflect"
  /\ Len(ret) = 2
  /\ ret[1].fn = "pluralize"
  /\ ret[2].fn = "singularize"

RegularOnly == arg \notin IrregularTable /\ ret[1].value \notin IrregularTable

\* C10 as stated: every identifier outside the exception table, whose plural
\* is outside it too, is restored by singularize(pluralize(x))
C10_RoundTripAll ==
  (RoundTrip /\ RegularOnly) => ret[2].value = arg

\* C10 amended: the same for the identifiers that do not end in 'e'
C10_RoundTripNoFinalE ==
  (RoundTrip /\ RegularOnly /\ ~endsWith(arg, <<"e">>)) => ret[2].value = arg

\* C10 witness: Category -> Categories -> Category
C10_Witness ==
  /\ RoundTrip
  /\ arg = W_Category
  /\ ret[1].value = <<"C","a","t","e","g","o","r","i","e","s">>
  /\ ret[2].value = W_Category

\* the singular a table of explicit forms holds for the entries of the
\* exception table
ExplicitSingular(word) ==
  IF word = W_Media THEN W_Media
  ELSE IF word = W_Pages THEN W_Page
  ELSE IF word = W_Users THEN W_User
  ELSE IF word = W_Posts THEN W_Post
  ELSE W_Example

\* C11: every entry of the exception table is returned unchanged by
\* pluralize, and singularize returns its explicit singular, not what the
\* suffix rules make of it
C11_TableEntries ==
  (pc = "inflect" /\ Len(ret) >= 1 /\ arg \in IrregularTable) =>
    /\ ret[1].fn = "pluralize" => ret[1].value = arg
    /\ ret[1].fn = "singularize" => ret[1].value = ExplicitSingular(arg)

W_Name == <<"N","a","m","e">>

FlagOf(d) ==
  { <<d.hasSlug, W_slug>>, <<d.hasStatus, W_status>>, <<d.hasSEO, W_seo>>,
    <<d.hasNavigation, W_showInNavigation>>,
    <<d.hasFeaturedImage, W_featuredImage>>, <<d.hasExcerpt, W_excerpt>>,
    <<d.hasTags, W_tags>>, <<d.hasAuthor, W_author>> }

namesOf(fields) == { fields[i].name : i \in 1..Len(fields) }

C14_SlugFieldOverride ==
  (Handled /\ ret # Null) =>
    (ret.hasSlug <=> (config.fieldMappings.slugField \in namesOf(ret.fields)))

----------------------------------------------------------------------------
(* Properties of a whole run *)

Ran(name) == \E i \in 1..Len(out.steps) : out.steps[i] = name

\* the string literals of a generated type signature
LiteralsOf(type) ==
  IF type = Str(StatusUnion) THEN {W_draft, W_published}
  ELSE IF type = Str(TemplateUnion)
       THEN {<<"d","e","f","a","u","l","t">>, <<"f","u","l","l","-","w","i","d","t","h">>,
             <<"s","i","d","e","b","a","r">>, <<"l","a","n","d","i","n","g">>}
  ELSE {}

\* the status fields of select type among the definitions written for the
\* i-th collection
StatusDefinitions(i) ==
  { k \in 1..Len(out.typeFiles[i].fieldDefinitions) :
      /\ out.typeFiles[i].fieldDefinitions[k].name = W_status
      /\ \E f \in 1..Len(collections[i].fields) :
           /\ collections[i].fields[f].name = W_status
           /\ collections[i].fields[f].type = W_select }

\* C15: the type signature generated for a status field is made of the
\* configured lifecycle literals: it contains config.statusValues.published
\* and config.statusValues.draft
C15_StatusLiterals ==
  Ran("generateWebTypes") =>
    \A i \in 1..Len(collections) : \A k \in StatusDefinitions(i) :
      /\ config.statusValues.published
           \in LiteralsOf(out.typeFiles[i].fieldDefinitions[k].type)
      /\ config.statusValues.draft
           \in LiteralsOf(out.typeFiles[i].fieldDefinitions[k].type)

\* the kinds of method the flags of a descriptor call for
ExpectedKinds(collection) ==
  {"list"}
    \cup (IF collection.hasSlug THEN {"bySlug"} ELSE {})
    \cup (IF collection.hasStatus THEN {"published"} ELSE {})
    \cup (IF collection.hasNavigation THEN {"navigation"} ELSE {})

ExpectedName(collection, kind) ==
  IF kind = "list" THEN <<"g","e","t">> \o collection.pluralName
  ELSE IF kind = "bySlug" THEN <<"g","e","t">> \o singularize(collection.displayName)
  ELSE IF kind = "published"
       THEN <<"g","e","t","P","u","b","l","i","s","h","e","d">> \o collection.pluralName
  ELSE <<"g","e","t">> \o collection.pluralName
         \o <<"F","o","r","N","a","v","i","g","a","t","i","o","n">>

elementsOf(seq) == { seq[k] : k \in 1..Len(seq) }

\* C16: the methods of a generated client are the list method and, each iff
\* its flag is set, the get-by-slug, list-published and list-for-navigation
\* methods; the main client has the same methods for the collection
C16_MethodsFollowFlags ==
  Ran("generateClientMethods") =>
    \A i \in 1..Len(collections) :
      /\ out.clientFiles[i].slug = collections[i].slug
      /\ out.mainClient.legacyMethods[i].slug = collections[i].slug
      /\ elementsOf(out.clientFiles[i].methods)
           = { [kind |-> kind, name |-> ExpectedName(collections[i], kind)] :
                 kind \in ExpectedKinds(collections[i]) }
      /\ elementsOf(out.mainClient.legacyMethods[i].methods)
           = elementsOf(out.clientFiles[i].methods)

C16_Witness ==
  /\ Ran("generateClientMethods")
  /\ \E i, j \in 1..Len(collections) :
       /\ collections[i].hasSlug /\ collections[i].hasStatus
       /\ ~collections[i].hasNavigation
       /\ Len(out.mainClient.legacyMethods[i].methods) = 3
       /\ collections[j].hasNavigation /\ ~collections[j].hasSlug
       /\ ~collections[j].hasStatus
       /\ Len(out.clientFiles[j].methods) = 2

\* a brace list of an import or export: identifiers separated by commas, a
\* trailing comma allowed, no empty element
WellFormedList(tokens) ==
  /\ Len(tokens) >= 1 => tokens[1].kind = "identifier"
  /\ \A k \in 1..(Len(tokens) - 1) :
       (tokens[k].kind = "comma") # (tokens[k + 1].kind = "comma")
  /\ \A k \in 1..Len(tokens) : tokens[k].kind \in {"comma", "identifier"}

\* lines of statements: every token is a line break or a whole statement
WellFormedLines(tokens) ==
  \A k \in 1..Len(tokens) :
    \/ tokens[k].kind = "newline"
    \/ tokens[k].kind \in {"export *", "export type", "export client"}
         /\ Len(tokens[k].text) > 0

\* C18: after a scan that registers no collection the generated main client,
\* clients index and types index are well-formed, no import or export list
\* having an empty element
C18_EmptySetWellFormed ==
  (Ran("generateClientMethods") /\ collections = <<>>) =>
    /\ WellFormedList(out.mainClient.clientImports)
    /\ WellFormedList(out.mainClient.clientExports)
    /\ WellFormedList(out.mainClient.typeExports)
    /\ WellFormedLines(out.clientIndex)
    /\ WellFormedLines(out.typesIndex.collectionExports)
    /\ WellFormedLines(out.typesIndex.reExports)

StepsAfterLoad ==
  {"generateWebTypes", "generateClientMethods", "generateRouteFiles",
   "generateSEOUtilities", "formatGeneratedFiles", "generateReport"}

\* C19: a run that finds no generated-types file (the collections directory
\* being there) does not end before every step after the types-loading step
\* has run, and reports the absence as a warning, not as an error
C19_MissingTypesOnlyWarns ==
  (config.dirExists /\ ~config.typesExists /\ pc \in {"done", "exited"}) =>
    /\ pc = "done"
    /\ \A name \in StepsAfterLoad : Ran(name)
    /\ \A k \in 1..Len(logs) : logs[k].level # "error"

\* C20: a step of the scan leaves every entry of the mapping as it is and
\* where it is, adding at most entries behind them
C20_AppendOnly ==
  [][/\ Len(collections') >= Len(collections)
     /\ \A i \in 1..Len(collections) : collections'[i] = collections[i]]_vars

----------------------------------------------------------------------------
(* Properties of the scan under the options *)

\* the slugs of the files whose extraction returned a descriptor
extractedSlugs ==
  { FirstMarkerValue(files[i].content, W_slug) :
      i \in { j \in 1..Len(files) :
                ~files[j].raises /\ HasMarker(files[j].content, W_slug) } }

registeredSlugs == { collections[i].slug : i \in 1..Len(collections) }

\* C21: unless the options set skipExamples to false, a finished scan has
\* registered every extracted collection but 'examples', and never
\* 'examples'; with skipExamples = false it has registered every extracted
\* collection, 'examples' included
C21_SkipExamples ==
  (pc = "scanned" /\ config.dirExists) =>
    IF arg.skipExamples = "false"
    THEN registeredSlugs = extractedSlugs
    ELSE registeredSlugs = extractedSlugs \ {W_examples}

C21_Witness ==
  /\ pc = "scanned"
  /\ arg.skipExamples = "undefined"
  /\ W_examples \in extractedSlugs
  /\ W_examples \notin registeredSlugs
  /\ W_posts \in registeredSlugs
  /\ \E k \in 1..Len(logs) : logs[k].text = "Skipping collection"

typed(fields, name, type) ==
  \E i \in 1..Len(fields) : fields[i].name = name /\ fields[i].type = type

\* C22: a pattern flag needs the well-known name and the documented type:
\* hasSlug a field 'slug' of type 'text', hasStatus a field 'status' of type
\* 'select', hasSEO a field 'seo' of type 'group'
C22_FlagsNeedType ==
  (Handled /\ ret # Null) =>
    /\ ret.hasSlug => typed(ret.fields, W_slug, W_text)
    /\ ret.hasStatus => typed(ret.fields, W_status, W_select)
    /\ ret.hasSEO => typed(ret.fields, W_seo, <<"g","r","o","u","p">>)

----------------------------------------------------------------------------
(* Properties of analyzeFields *)

markerAt(M, i) == CHOOSE m \in M : m[1] = i

\* the last position of the declaration whose name marker starts at i: the
\* one before the next name marker, or the end of the text
declarationEnd(content, starts, i) ==
  IF \E j \in starts : j > i
  THEN (CHOOSE j \in starts : j > i /\ \A h \in starts : h > i => j <= h) - 1
  ELSE Len(content)

\* the value of the first of the type markers T that start in i..e, or 'text'
typeWithin(content, T, i, e) ==
  IF \E t \in T : t[1] >= i /\ t[1] <= e
  THEN valueOf(content, CHOOSE t \in T :
                          /\ t[1] >= i /\ t[1] <= e
                          /\ \A u \in T : (u[1] >= i /\ u[1] <= e) => t[1] <= u[1])
  ELSE W_text

\* C23: analyzeFields returns one descriptor per name marker, in document
\* order, with the captured non-empty name, the type the declaration
\* declares ('text' if it declares none), and required = false for a
\* declaration without required marker
C23_OnePerDeclaration ==
  pc = "returned" =>
    \A N \in {Markers(arg, W_name)}, T \in {Markers(arg, W_type)} :
      \A starts \in {{ m[1] : m \in N }} :
        /\ Len(ret) = Cardinality(starts)
        /\ \A k \in 1..Len(ret) :
             \A i \in {Kth(starts, k)} : \A e \in {declarationEnd(arg, starts, i)} :
               /\ ret[k].name = valueOf(arg, markerAt(N, i))
               /\ ret[k].name # <<>>
               /\ ret[k].type = typeWithin(arg, T, i, e)
               /\ (~\E j \in i..e : occursAt(arg, W_required_true, j)) => ~ret[k].required

\* C24: required is true iff 'required: true' lies whole inside the
\* RequiredWindow characters that begin at the name marker of the field
C24_RequiredWindow ==
  pc = "returned" =>
    \A starts \in {{ m[1] : m \in Markers(arg, W_name) }} :
      /\ Len(ret) = Cardinality(starts)
      /\ \A k \in 1..Len(ret) :
           \A i \in {Kth(starts, k)} :
             ret[k].required <=>
               \E j \in i..(i + RequiredWindow - Len(W_required_true)) :
                 occursAt(arg, W_required_true, j)

C24_Witness ==
  /\ pc = "returned"
  /\ Len(ret) = 2
  /\ ~ret[1].required
  /\ ret[2].required
  /\ \E j \in 1..Len(arg) : occursAt(arg, W_required_true, j)

\* C25: the type of a field comes from a type marker near its name marker:
\* when no type marker starts within the declaration of the field nor within
\* RequiredWindow characters of its name marker, the type is 'text'
C25_TypeIsLocal ==
  pc = "returned" =>
    \A N \in {Markers(arg, W_name)}, T \in {Markers(arg, W_type)} :
      \A starts \in {{ m[1] : m \in N }} :
        /\ Len(ret) = Cardinality(starts)
        /\ \A k \in 1..Len(ret) :
             \A i \in {Kth(starts, k)} : \A e \in {declarationEnd(arg, starts, i)} :
               (~\E t \in T : t[1] >= i /\ (t[1] <= e \/ t[1] < i + RequiredWindow))
                 => ret[k].type = W_text

----------------------------------------------------------------------------
(* Properties of the suffix rules *)

\* word ends with the letters of suffix
Ends(word, suffix) ==
  /\ Len(word) >= Len(suffix)
  /\ \A k \in 1..Len(suffix) : word[Len(word) - Len(suffix) + k] = suffix[k]

DropLast(word, n) == [k \in 1..(Len(word) - n) |-> word[k]]

\* C26: for a word outside the exception table the first inflection applied
\* follows the suffix rules in order: pluralize turns a final 'y' into
\* 'ies', else appends 'es' after 's', 'sh' or 'ch', else appends 's';
\* singularize turns a final 'ies' into 'y', else strips a final 'es', else
\* strips a final 's', else returns the word
C26_SuffixRules ==
  (pc = "inflect" /\ Len(ret) >= 1 /\ arg \notin IrregularTable) =>
    /\ ret[1].fn = "pluralize" =>
         ret[1].value =
           IF Ends(arg, <<"y">>) THEN DropLast(arg, 1) \o <<"i","e","s">>
           ELSE IF Ends(arg, <<"s">>) \/ Ends(arg, <<"s","h">>) \/ Ends(arg, <<"c","h">>)
                THEN arg \o <<"e","s">>
           ELSE arg \o <<"s">>
    /\ ret[1].fn = "singularize" =>
         ret[1].value =
           IF Ends(arg, <<"i","e","s">>) THEN DropLast(arg, 3) \o <<"y">>
           ELSE IF Ends(arg, <<"e","s">>) THEN DropLast(arg, 2)
           ELSE IF Ends(arg, <<"s">>) THEN DropLast(arg, 1)
           ELSE arg

C26_Witness ==
  /\ pc = "inflect"
  /\ Len(ret) = 2
  /\ arg = <<"a","c","h">>
  /\ ret[1].fn = "pluralize"
  /\ ret[1].value = <<"a","c","h","e","s">>
  /\ ret[2].fn = "singularize"
  /\ ret[2].value = <<"a","c","h">>

----------------------------------------------------------------------------
(* Properties of the generated files *)

namesIn(methods) == { methods[k].name : k \in 1..Len(methods) }

\* C27: every payloadClient method a generated route calls is defined in the
\* main client for the collection of the route
C27_RouteCallsDefined ==
  Ran("generateRouteFiles") =>
    \A r \in 1..Len(out.routes) : \A i \in 1..Len(collections) :
      collections[i].slug = out.routes[r].slug =>
        /\ out.routes[r].index \in namesIn(out.mainClient.legacyMethods[i].methods)
        /\ out.routes[r].detail \in namesIn(out.mainClient.legacyMethods[i].methods)

\* C28: the method names emitted for one collection are pairwise distinct,
\* in its client class and in its payloadClient entries
C28_MethodNamesDistinct ==
  Ran("generateClientMethods") =>
    \A i \in 1..Len(collections) :
      /\ \A a, b \in 1..Len(out.clientFiles[i].methods) :
           a # b => out.clientFiles[i].methods[a].name # out.clientFiles[i].methods[b].name
      /\ \A a, b \in 1..Len(out.mainClient.legacyMethods[i].methods) :
           a # b => out.mainClient.legacyMethods[i].methods[a].name
                      # out.mainClient.legacyMethods[i].methods[b].name

\* the <name>.ts files of a directory
TsFiles(dir) == { file \in dir : Ends(file, <<".","t","s">>) }

SlugFiles == { collections[i].slug \o <<".","t","s">> : i \in 1..Len(collections) }

BaseFile == <<"b","a","s","e",".","t","s">>
IndexFile == <<"i","n","d","e","x",".","t","s">>
SiteSettingsFile == <<"s","i","t","e","-","s","e","t","t","i","n","g","s",".","t","s">>

\* C30: after a whole run, whatever the directories held before, the
\* <name>.ts files of types/ and of clients/ are the files of the registered
\* collections and the protected files (base.ts and site-settings.ts, and
\* index.ts in clients/); and no step of the run removes a protected file
\* or, once the scan is over, the file of a registered collection
C30_OutputDirectories ==
  /\ [](pc = "done" =>
          /\ TsFiles(out.typesDir) = SlugFiles \cup {BaseFile, SiteSettingsFile}
          /\ TsFiles(out.clientsDir) = SlugFiles \cup {BaseFile, SiteSettingsFile, IndexFile})
  /\ [][/\ \A file \in out.typesDir :
             (file \in {BaseFile, SiteSettingsFile}
                \/ (pc \notin {"bin", "constructed", "scanning"} /\ file \in SlugFiles))
               => file \in out'.typesDir
        /\ \A file \in out.clientsDir :
             (file \in {BaseFile, SiteSettingsFile, IndexFile}
                \/ (pc \notin {"bin", "constructed", "scanning"} /\ file \in SlugFiles))
               => file \in out'.clientsDir]_vars

\* C29: getTypeScriptType and mapFieldTypeToTypeScript return the same
\* signature for the same tag and field name
C29_MappersAgree ==
  (pc = "returned" /\ ret.fn = "getTypeScriptType") =>
    ret.value = mapFieldTypeToTypeScript(arg.payloadType, arg.fieldName)

====
